---- MODULE Spec2Model ----
(***************************************************************************)
(* percache: persistent cache for results of callables (src/percache.py).  *)
(*                                                                         *)
(* Strings are sequences of one-character strings.  The state is one Cache *)
(* engine over its backend (a shelve opened on a path, or the dict-based   *)
(* Backend of src/tests.py), the durable content of the path, a clock, and *)
(* a record of the operation that ran last.                                *)
(***************************************************************************)
EXTENDS Integers, Sequences, FiniteSets, TLC

VARIABLES
    cache,      \* self.__cache: the backend's mapping, key string -> stored object
    disk,       \* durable content of the file the shelve was opened on
    kind,       \* "shelve" (backend given as a filename) or "dict" (tests.Backend)
    livesync,   \* self.__livesync
    reprfn,     \* self.__repr: "repr" (builtin) or "myrepr" (tests.py test_8)
    phase,      \* "open", "closed" (backend.close() was called), "gone" (finalized)
    synced,     \* backend.sync() has been called on this backend
    now,        \* time.time()
    last,       \* the operation that ran last and what its caller observed
    origin,     \* history: for each value key, the call that stored the value
    seen,       \* history: the signatures called so far (kept when seen.on)
    prog,       \* the invocations the program at hand makes
    run         \* the operations in progress when threads share the engine

vars == <<cache, disk, kind, livesync, reprfn, phase, synced, now, last, origin, seen,
          prog, run>>

-----------------------------------------------------------------------------
(* Bounds *)

MaxTime == 2    \* the clock runs over 0..MaxTime
MaxAge == 1     \* clear(maxage) is called with maxage in MinAge..MaxAge

MinAge == 0 - 1

-----------------------------------------------------------------------------
(* Strings *)

\* str.endswith
EndsWith(s, suf) ==
    /\ Len(s) >= Len(suf)
    /\ SubSeq(s, Len(s) - Len(suf) + 1, Len(s)) = suf

\* key.rsplit(":", 1)[0]: the part before the last ":" (the whole string
\* when it holds no ":")
RSplitHead(s) ==
    LET colons == {i \in 1..Len(s) : s[i] = ":"}
    IN  IF colons = {} THEN s
        ELSE SubSeq(s, 1, (CHOOSE i \in colons : \A j \in colons : j <= i) - 1)

\* ASCII code of the characters the model uses (ordering of str, hex digits)
Ord(c) ==
    CASE c = "0" -> 48 [] c = "1" -> 49 [] c = "2" -> 50 [] c = "3" -> 51
      [] c = "4" -> 52 [] c = "5" -> 53 [] c = "6" -> 54 [] c = "7" -> 55
      [] c = "8" -> 56 [] c = "9" -> 57 [] c = ":" -> 58
      [] c = "a" -> 97 [] c = "b" -> 98 [] c = "f" -> 102 [] c = "o" -> 111
      [] c = "r" -> 114 [] c = "x" -> 120 [] c = "y" -> 121 [] c = "z" -> 122

\* str < str of Python 2: lexicographic by character code
RECURSIVE StrLess(_, _)
StrLess(a, b) ==
    IF b = <<>> THEN FALSE
    ELSE IF a = <<>> THEN TRUE
    ELSE IF Ord(a[1]) # Ord(b[1]) THEN Ord(a[1]) < Ord(b[1])
    ELSE StrLess(Tail(a), Tail(b))

HexDigits == <<"0", "1", "2", "3", "4", "5", "6", "7", "8", "9",
               "a", "b", "c", "d", "e", "f">>

DigitChar(d) == HexDigits[d + 1]

\* repr() of a non-negative int: its decimal digits
RECURSIVE ReprInt(_)
ReprInt(n) ==
    IF n < 10 THEN <<DigitChar(n)>>
    ELSE ReprInt(n \div 10) \o <<DigitChar(n % 10)>>

\* tests.py test_8: def myrepr(a): return "foobar"
MyRepr(a) == <<"f", "o", "o", "b", "a", "r">>

ReprFns == {"repr", "myrepr"}

\* self.__repr(a)
Repr(fn, a) == IF fn = "myrepr" THEN MyRepr(a) ELSE ReprInt(a)

-----------------------------------------------------------------------------
(* Invocations of wrapped callables *)

F1 == <<"f", "1">>     \* func.__name__ of tests.py f1(a, b): return a
F6 == <<"f", "6">>     \* func.__name__ of tests.py f6(a, x=1, y=2, z=3)
KwX == <<"x">>
KwY == <<"y">>
KwZ == <<"z">>

\* wrapper(*args, **kwargs) on the wrapper of fn; kwargs in call-site order
Invocation(fn, args, kwargs) == [fn |-> fn, args |-> args, kwargs |-> kwargs]

\* The invocations the model draws from.
Calls ==
    { Invocation(F1, <<1, 23>>, <<>>),
      Invocation(F1, <<12, 3>>, <<>>),
      Invocation(F6, <<1>>, << <<KwY, 1>>, <<KwZ, 1>> >>),
      Invocation(F6, <<1>>, << <<KwZ, 1>>, <<KwY, 1>> >>) }

\* the dict Python builds from the keyword arguments: name -> value
KwDict(c) ==
    [k \in {c.kwargs[i][1] : i \in 1..Len(c.kwargs)} |->
        (CHOOSE p \in {c.kwargs[i] : i \in 1..Len(c.kwargs)} : p[1] = k)[2]]

\* tests.py test_1: f1 and f2 on one engine, f2 called with the arguments
\* of an f1 call; the two f1 calls differ in the argument that f1 returns
F2 == <<"f", "2">>     \* func.__name__ of tests.py f2(a, b): return a

NameCalls ==
    { Invocation(F1, <<1, 3>>, <<>>),
      Invocation(F1, <<2, 3>>, <<>>),
      Invocation(F2, <<1, 3>>, <<>>) }

\* the invocations that threads sharing the engine make
RaceCalls ==
    { Invocation(F1, <<1, 23>>, <<>>),
      Invocation(F1, <<12, 3>>, <<>>),
      Invocation(F6, <<1>>, << <<KwY, 1>>, <<KwZ, 1>> >>) }

AllCalls == Calls \cup NameCalls \cup RaceCalls

KwGet(c, k, default) == IF k \in DOMAIN KwDict(c) THEN KwDict(c)[k] ELSE default

\* func(*args, **kwargs) for the callables of tests.py
Apply(c) ==
    IF c.fn = F6
    THEN c.args[1] + KwGet(c, KwX, 1) + KwGet(c, KwY, 2) + KwGet(c, KwZ, 3)
    ELSE c.args[1]

-----------------------------------------------------------------------------
(* Key derivation: percache.py lines 89-94 *)

\* sorted(kwargs): the keyword names in ascending order
RECURSIVE SortedStrs(_)
SortedStrs(S) ==
    IF S = {} THEN <<>>
    ELSE LET m == CHOOSE x \in S : \A y \in S \ {x} : StrLess(x, y)
         IN  <<m>> \o SortedStrs(S \ {m})

\* the bytes fed by: for a in args: ckey.update(self.__repr(a))
RECURSIVE ArgsBytes(_, _)
ArgsBytes(fn, args) ==
    IF args = <<>> THEN <<>>
    ELSE Repr(fn, Head(args)) \o ArgsBytes(fn, Tail(args))

\* "%s:%s" % (k, self.__repr(kwargs[k]))
KwBytes(fn, k, v) == k \o <<":">> \o Repr(fn, v)

\* the bytes fed by: for k in sorted(kwargs): ckey.update("%s:%s" % ...)
RECURSIVE KwargsBytes(_, _, _)
KwargsBytes(fn, names, kw) ==
    IF names = <<>> THEN <<>>
    ELSE KwBytes(fn, Head(names), kw[Head(names)]) \o KwargsBytes(fn, Tail(names), kw)

\* (a variant that takes the names in the order they were passed)
KwNamesAsPassed(c) == [i \in 1..Len(c.kwargs) |-> c.kwargs[i][1]]

\* line 92: sorted(kwargs)
KwNames(c) == SortedStrs(DOMAIN KwDict(c))

\* (a variant of lines 91 and 93 that calls the builtin repr)
MessageBuiltinRepr(fn, c) ==
    c.fn \o ArgsBytes("repr", c.args)
         \o KwargsBytes("repr", KwNames(c), KwDict(c))

\* (a variant of line 89 that starts from an empty sha1 object)
MessageUnnamed(fn, c) ==
    ArgsBytes(fn, c.args) \o KwargsBytes(fn, KwNames(c), KwDict(c))

\* everything the sha1 object was fed: hashlib.sha1(func.__name__) and the
\* updates that follow hash the concatenation of their arguments
Message(fn, c) ==
    c.fn \o ArgsBytes(fn, c.args)
         \o KwargsBytes(fn, KwNames(c), KwDict(c))

\* hexdigest(): SHA-1 is taken to be collision-free, and is modelled by an
\* injective map from messages to strings of hex digits (two per character)
RECURSIVE Sha1Hex(_)
Sha1Hex(msg) ==
    IF msg = <<>> THEN <<>>
    ELSE <<DigitChar(Ord(Head(msg)) \div 16), DigitChar(Ord(Head(msg)) % 16)>>
            \o Sha1Hex(Tail(msg))

\* ckey of the wrapper
CKey(fn, c) == Sha1Hex(Message(fn, c))

\* the ckey of every invocation, under each representation function
KeyOf == [fn \in ReprFns |-> [c \in AllCalls |-> CKey(fn, c)]]

\* "%s:atime" % ckey
ATIME == <<":", "a", "t", "i", "m", "e">>

AtimeKey(ckey) == ckey \o ATIME

-----------------------------------------------------------------------------
(* Backend: a shelve.Shelf (pickles what it stores) or tests.Backend(dict) *)

Kinds == {"shelve", "dict"}

Dumps(v) == <<"pickle", v>>
Loads(p) == p[2]

Empty == [x \in {} |-> 0]

\* key in self.__cache
Contains(store, key) == key \in DOMAIN store

\* self.__cache[key]
GetItem(k, store, key) == IF k = "shelve" THEN Loads(store[key]) ELSE store[key]

\* self.__cache[key] = v
SetItem(k, store, key, v) ==
    [x \in DOMAIN store \cup {key} |->
        IF x = key THEN (IF k = "shelve" THEN Dumps(v) ELSE v) ELSE store[x]]

\* del self.__cache[key] for every key of a set (all present)
DelItems(store, keys) == [x \in DOMAIN store \ keys |-> store[x]]

\* (a variant that deletes the values and leaves the :atime keys)
ClearValuesOnly(store) ==
    [x \in {k \in DOMAIN store : EndsWith(k, ATIME)} |-> store[x]]

\* self.__cache.clear()
ClearAll(store) == Empty

\* backend.sync(): what the path holds afterwards (a dict backend has no path)
SyncDisk(k, store, d) == IF k = "shelve" THEN store ELSE d

\* operations on a closed Shelf raise ("invalid operation on closed shelf");
\* tests.Backend.close() only sets a flag and the dict stays usable
Refuses(k, ph) == k = "shelve" /\ ph = "closed"

-----------------------------------------------------------------------------
(* What the caller of the last operation observed *)

NoCall == Invocation(<<>>, <<>>, <<>>)

\* op and outcome of the operation; for a wrapped call: the invocation,
\* whether the original callable ran and <<the value returned>>; for clear:
\* maxage and the keys it deleted; for stats: the tuple returned; was: the
\* phase the engine was in when the operation was called
Observed(op, c, outcome, invoked, result, maxage, stats) ==
    [op |-> op, call |-> c, outcome |-> outcome, invoked |-> invoked,
     result |-> result, maxage |-> maxage, stats |-> stats, removed |-> {},
     was |-> phase]

Plain(op, outcome) == Observed(op, NoCall, outcome, FALSE, <<>>, 0, <<>>)

\* the signature of an invocation: callable name, representations of the
\* positional arguments in order, set of keyword name/representation pairs
Sig(fn, c) ==
    [name |-> c.fn,
     args |-> [i \in 1..Len(c.args) |-> Repr(fn, c.args[i])],
     kw   |-> {<<k, Repr(fn, KwDict(c)[k])>> : k \in DOMAIN KwDict(c)}]

SigOf == [fn \in ReprFns |-> [c \in AllCalls |-> Sig(fn, c)]]

\* history kept by the wrapper: the call that stored the value under ckey,
\* and the signatures called
Remember(ckey, c) == [x \in DOMAIN origin \cup {ckey} |->
                         IF x = ckey THEN c ELSE origin[x]]

Forget(store) == [x \in DOMAIN origin \cap DOMAIN store |-> origin[x]]

Saw(c) == IF seen.on
          THEN [seen EXCEPT !.sigs = @ \cup {SigOf[reprfn][c]}]
          ELSE seen

-----------------------------------------------------------------------------
(* Cache.__init__ *)

\* no thread shares the engine: every operation runs to its end alone
NoThreads == <<>>

\* Cache(backend, repr, livesync): backend a filename or a tests.Backend()
Init ==
    /\ kind \in Kinds
    /\ livesync \in BOOLEAN
    /\ reprfn \in ReprFns
    /\ cache = Empty
    /\ disk = Empty
    /\ phase = "open"
    /\ synced = FALSE
    /\ now = 0
    /\ last = Plain("init", "ok")
    /\ origin = Empty
    /\ seen = [on |-> FALSE, sigs |-> {}]
    /\ prog = Calls
    /\ run = NoThreads

\* a later Cache(...) of the same configuration, once the earlier engine is
\* closed: on the same path (shelve.open reads what the path holds), or on
\* a fresh tests.Backend()
Construct ==
    /\ phase # "open"
    /\ cache' = IF kind = "shelve" THEN disk ELSE Empty
    /\ phase' = "open"
    /\ synced' = FALSE
    /\ last' = Plain("open", "ok")
    /\ origin' = Forget(cache')
    /\ UNCHANGED <<disk, kind, livesync, reprfn, now, seen, prog, run>>

-----------------------------------------------------------------------------
(* Cache.__call__.wrapper: percache.py lines 86-104 *)

\* line 96: if ckey in self.__cache
IsHit(store, ckey) == Contains(store, ckey)

\* lines 96-100: the result and the store after the value was looked up or
\* computed and stored
Lookup(k, store, ckey, c) ==
    IF IsHit(store, ckey)
    THEN [result |-> GetItem(k, store, ckey), store |-> store]
    ELSE [result |-> Apply(c), store |-> SetItem(k, store, ckey, Apply(c))]

\* (a variant that writes the access time only when there is none yet)
TouchOnCreate(k, store, ckey, t) ==
    IF Contains(store, AtimeKey(ckey)) THEN store
    ELSE SetItem(k, store, AtimeKey(ckey), t)

\* (a variant that writes the access time under ":atime", without the key)
TouchShared(k, store, ckey, t) == SetItem(k, store, ATIME, t)

\* line 101: self.__cache["%s:atime" % ckey] = time.time()
Touch(k, store, ckey, t) == SetItem(k, store, AtimeKey(ckey), t)

\* (a variant that records the access although the callable raised)
AfterRaiseTouched(k, store, ckey, t) == Touch(k, store, ckey, t)

\* line 99 raises: lines 100-104 do not run, the store stays as it was
AfterRaise(k, store, ckey, t) == store

\* (a variant that syncs after every call, whatever livesync is)
WrapperSyncsAlways(ls) == TRUE

\* lines 102-103: if self.__livesync: self.__cache.sync()
WrapperSyncs(ls) == ls

Wrapper(c, raises) ==
    LET ckey  == KeyOf[reprfn][c]
        found == Lookup(kind, cache, ckey, c)
        after == Touch(kind, found.store, ckey, now)
    IN
    /\ phase # "gone"
    /\ IF Refuses(kind, phase)
       THEN /\ last' = Observed("call", c, "ClosedError", FALSE, <<>>, 0, <<>>)
            /\ UNCHANGED <<cache, disk, synced, origin, seen>>
       ELSE IF ~IsHit(cache, ckey) /\ raises
       THEN /\ last' = Observed("call", c, "raised", TRUE, <<>>, 0, <<>>)
            /\ cache' = AfterRaise(kind, cache, ckey, now)
            /\ seen' = Saw(c)
            /\ UNCHANGED <<disk, synced, origin>>
       ELSE /\ cache' = after
            /\ seen' = Saw(c)
            /\ disk' = IF WrapperSyncs(livesync)
                       THEN SyncDisk(kind, after, disk) ELSE disk
            /\ synced' = (synced \/ WrapperSyncs(livesync))
            /\ origin' = IF IsHit(cache, ckey) THEN origin ELSE Remember(ckey, c)
            /\ last' = Observed("call", c, "ok", ~IsHit(cache, ckey),
                                <<found.result>>, 0, <<>>)
    /\ UNCHANGED <<kind, livesync, reprfn, phase, now, prog, run>>

Call == \E c \in prog, raises \in BOOLEAN : Wrapper(c, raises)

-----------------------------------------------------------------------------
(* Cache.clear: percache.py lines 118-132 *)

\* (a variant that also collects the entries accessed exactly at the cutoff)
OutdatedInclusive(k, store, bigbang) ==
    LET old == {key \in DOMAIN store :
                   EndsWith(key, ATIME) /\ GetItem(k, store, key) <= bigbang}
    IN  old \cup {RSplitHead(key) : key \in old}

\* (a variant without line 127: only the :atime keys are collected)
OutdatedAtimesOnly(k, store, bigbang) ==
    {key \in DOMAIN store :
        EndsWith(key, ATIME) /\ GetItem(k, store, key) < bigbang}

\* lines 122-127: the keys collected for deletion
Outdated(k, store, bigbang) ==
    LET old == {key \in DOMAIN store :
                   EndsWith(key, ATIME) /\ GetItem(k, store, key) < bigbang}
    IN  old \cup {RSplitHead(key) : key \in old}

\* (a variant of line 121 that tests maxage >= 0)
SelectiveFromZero(maxage) == maxage >= 0

\* line 121: if maxage > 0
Selective(maxage) == maxage > 0

\* the store after clear(maxage) ran to its end
Cleared(k, store, maxage, t) ==
    IF Selective(maxage)
    THEN DelItems(store, Outdated(k, store, t - maxage))
    ELSE ClearAll(store)

Clear(maxage) ==
    /\ phase # "gone"
    /\ IF Refuses(kind, phase)
       THEN /\ last' = [Plain("clear", "ClosedError") EXCEPT !.maxage = maxage]
            /\ UNCHANGED cache
       ELSE IF Selective(maxage)
               /\ ~(Outdated(kind, cache, now - maxage) \subseteq DOMAIN cache)
       THEN \* lines 129-130: del of a key that is absent raises KeyError
            \* after some of the collected keys were deleted
            /\ \E gone \in SUBSET (Outdated(kind, cache, now - maxage) \cap DOMAIN cache) :
                   cache' = DelItems(cache, gone)
            /\ last' = [Plain("clear", "KeyError") EXCEPT
                           !.maxage = maxage,
                           !.removed = DOMAIN cache \ DOMAIN cache']
       ELSE /\ cache' = Cleared(kind, cache, maxage, now)
            /\ last' = [Plain("clear", "ok") EXCEPT
                           !.maxage = maxage,
                           !.removed = DOMAIN cache \ DOMAIN cache']
    /\ origin' = Forget(cache')
    /\ UNCHANGED <<disk, kind, livesync, reprfn, phase, synced, now, seen, prog, run>>

ClearOp == \E maxage \in MinAge..MaxAge : Clear(maxage)

-----------------------------------------------------------------------------
(* Cache.stats: percache.py lines 134-149 *)

\* (a variant of line 146 that keeps oldest as it was)
MinKept(a, b) == a

Min(a, b) == IF a < b THEN a ELSE b
Max(a, b) == IF a > b THEN a ELSE b

\* lines 144-148: the loop over the keys, from <<num, oldest, newest>>
RECURSIVE StatsLoop(_, _, _, _)
StatsLoop(k, store, keys, acc) ==
    IF keys = {} THEN acc
    ELSE LET key == CHOOSE x \in keys : TRUE
             nxt == IF EndsWith(key, ATIME)
                    THEN <<acc[1] + 1,
                           Min(acc[2], GetItem(k, store, key)),
                           Max(acc[3], GetItem(k, store, key))>>
                    ELSE acc
         IN  StatsLoop(k, store, keys \ {key}, nxt)

\* (a variant in which oldest starts at 0 as newest does)
StatsOfFromZero(k, store, t) == StatsLoop(k, store, DOMAIN store, <<0, 0, 0>>)

\* lines 141-143 and 149
StatsOf(k, store, t) == StatsLoop(k, store, DOMAIN store, <<0, t, 0>>)

Stats ==
    /\ phase # "gone"
    /\ last' = IF Refuses(kind, phase)
               THEN Plain("stats", "ClosedError")
               ELSE [Plain("stats", "ok") EXCEPT !.stats = StatsOf(kind, cache, now)]
    /\ UNCHANGED <<cache, disk, kind, livesync, reprfn, phase, synced, now, origin, seen,
                   prog, run>>

-----------------------------------------------------------------------------
(* Cache.close and Cache.__del__: percache.py lines 108-116 *)

\* (a variant that closes without writing)
CloseDiskUnwritten(k, ph, store, d) == d

\* (a variant in which closing a closed backend raises)
CloseOutcomeOnce(k, ph) == IF ph = "closed" THEN "ClosedError" ELSE "ok"

\* self.__cache.close(): an open Shelf writes itself to its path; a closed
\* Shelf and tests.Backend write nothing
CloseDisk(k, ph, store, d) == IF k = "shelve" /\ ph = "open" THEN store ELSE d

\* what close() raises: nothing, also on a backend closed before
CloseOutcome(k, ph) == "ok"

Close ==
    /\ phase # "gone"
    /\ disk' = CloseDisk(kind, phase, cache, disk)
    /\ phase' = "closed"
    /\ last' = Plain("close", CloseOutcome(kind, phase))
    /\ UNCHANGED <<cache, kind, livesync, reprfn, synced, now, origin, seen, prog, run>>

\* __del__ calls close(); the engine is unreachable afterwards
Del ==
    /\ phase # "gone"
    /\ disk' = CloseDisk(kind, phase, cache, disk)
    /\ phase' = "gone"
    /\ last' = Plain("del", CloseOutcome(kind, phase))
    /\ UNCHANGED <<cache, kind, livesync, reprfn, synced, now, origin, seen, prog, run>>

-----------------------------------------------------------------------------
(* time.time() *)

Tick ==
    /\ now < MaxTime
    /\ now' = now + 1
    /\ last' = Plain("tick", "ok")
    /\ UNCHANGED <<cache, disk, kind, livesync, reprfn, phase, synced, origin, seen,
                   prog, run>>

-----------------------------------------------------------------------------

Next ==
    \/ Call
    \/ ClearOp
    \/ Stats
    \/ Close
    \/ Del
    \/ Construct
    \/ Tick

Spec == Init /\ [][Next]_vars

\* the same engine with the history of called signatures kept
InitHist ==
    /\ Init!1 /\ Init!2 /\ Init!3 /\ Init!4 /\ Init!5 /\ Init!6
    /\ Init!7 /\ Init!8 /\ Init!9 /\ Init!10
    /\ seen = [on |-> TRUE, sigs |-> {}]
    /\ Init!12 /\ Init!13

SpecHist == InitHist /\ [][Next]_vars

\* the same engine under a program that wraps f1 and f2 (tests.py test_1)
InitNames ==
    /\ Init!1 /\ Init!2 /\ Init!3 /\ Init!4 /\ Init!5 /\ Init!6
    /\ Init!7 /\ Init!8 /\ Init!9 /\ Init!10 /\ Init!11
    /\ prog = NameCalls
    /\ Init!13

SpecNames == InitNames /\ [][Next]_vars

-----------------------------------------------------------------------------
(* Threads that share one open engine. Each statement of the wrapper and   *)
(* of clear(maxage) that reads or writes the backend is a step of its own; *)
(* a single backend operation is atomic.                                   *)

Threads == {"t1", "t2"}

\* a thread between two wrapped calls, with how its last call ended
Idle(outcome) ==
    [pc |-> "idle", call |-> NoCall, outcome |-> outcome,
     invoked |-> FALSE, result |-> <<>>]

\* a thread inside the wrapper, before the statement of line pc
At(pc, c, invoked, result) ==
    [pc |-> pc, call |-> c, outcome |-> "running",
     invoked |-> invoked, result |-> result]

\* clear(maxage) in progress: the keys still to scan, the :atime keys
\* collected, the keys of the pair being deleted
Clearing(pc, bigbang, pending, outdated, pair, outcome) ==
    [pc |-> pc, bigbang |-> bigbang, pending |-> pending,
     outdated |-> outdated, pair |-> pair, outcome |-> outcome]

NoClear(outcome) == Clearing("idle", 0, {}, {}, <<>>, outcome)

\* what no step of a thread changes
ThreadFrame == UNCHANGED <<kind, livesync, reprfn, phase, now, last, origin, seen, prog>>

\* lines 89-94: the key is derived from the arguments alone
Begin(t, c) ==
    /\ run.w[t].pc = "idle"
    /\ run' = [run EXCEPT !.w[t] = At("96", c, FALSE, <<>>)]
    /\ UNCHANGED <<cache, disk, synced>>
    /\ ThreadFrame

\* (a variant that puts a placeholder, 0, under the key before the call
\* of func)
BeforeComputeReserved(k, store, ckey) == SetItem(k, store, ckey, 0)

\* lines 96-99: nothing is written between the test and the call of func
BeforeCompute(k, store, ckey) == store

\* line 96: if ckey in self.__cache
HitCheck(t) ==
    LET me == run.w[t]
        ckey == KeyOf[reprfn][me.call]
    IN
    /\ me.pc = "96"
    /\ IF IsHit(cache, ckey)
       THEN /\ run' = [run EXCEPT !.w[t] = At("97", me.call, FALSE, <<>>)]
            /\ UNCHANGED cache
       ELSE /\ run' = [run EXCEPT !.w[t] = At("99", me.call, TRUE, <<>>)]
            /\ cache' = BeforeCompute(kind, cache, ckey)
    /\ UNCHANGED <<disk, synced>>
    /\ ThreadFrame

\* line 97: res = self.__cache[ckey]; KeyError when the key is gone
ReadValue(t) ==
    LET me == run.w[t]
        ckey == KeyOf[reprfn][me.call]
    IN
    /\ me.pc = "97"
    /\ run' = [run EXCEPT !.w[t] =
                 IF Contains(cache, ckey)
                 THEN At("101", me.call, FALSE, <<GetItem(kind, cache, ckey)>>)
                 ELSE Idle("KeyError")]
    /\ UNCHANGED <<cache, disk, synced>>
    /\ ThreadFrame

\* line 99: res = func(*args, **kwargs), which may raise
Compute(t, raises) ==
    LET me == run.w[t]
    IN
    /\ me.pc = "99"
    /\ run' = [run EXCEPT !.w[t] =
                 IF raises
                 THEN Idle("raised")
                 ELSE At("100", me.call, TRUE, <<Apply(me.call)>>)]
    /\ UNCHANGED <<cache, disk, synced>>
    /\ ThreadFrame

\* line 100: self.__cache[ckey] = res
StoreValue(t) ==
    LET me == run.w[t]
        ckey == KeyOf[reprfn][me.call]
    IN
    /\ me.pc = "100"
    /\ cache' = SetItem(kind, cache, ckey, me.result[1])
    /\ run' = [run EXCEPT !.w[t] = At("101", me.call, TRUE, me.result)]
    /\ UNCHANGED <<disk, synced>>
    /\ ThreadFrame

\* line 101: self.__cache["%s:atime" % ckey] = time.time()
WriteAtime(t) ==
    LET me == run.w[t]
        ckey == KeyOf[reprfn][me.call]
    IN
    /\ me.pc = "101"
    /\ cache' = Touch(kind, cache, ckey, now)
    /\ run' = [run EXCEPT !.w[t] = At("102", me.call, me.invoked, me.result)]
    /\ UNCHANGED <<disk, synced>>
    /\ ThreadFrame

\* lines 102-104: the sync of livesync, and return res
SyncReturn(t) ==
    LET me == run.w[t]
    IN
    /\ me.pc = "102"
    /\ disk' = IF WrapperSyncs(livesync) THEN SyncDisk(kind, cache, disk) ELSE disk
    /\ synced' = (synced \/ WrapperSyncs(livesync))
    /\ run' = [run EXCEPT !.w[t] = Idle("ok")]
    /\ UNCHANGED cache
    /\ ThreadFrame

\* lines 121-124: clear(maxage) with maxage > 0 starts its scan; a Shelf
\* iterates over a list of its keys taken at the start, of which the scan
\* looks further at those that end with ":atime" only
ClearBegin(maxage) ==
    /\ run.cl.pc = "idle"
    /\ Selective(maxage)
    /\ run' = [run EXCEPT !.cl =
                 Clearing("125", now - maxage,
                          {key \in DOMAIN cache : EndsWith(key, ATIME)},
                          {}, <<>>, "running")]
    /\ UNCHANGED <<cache, disk, synced>>
    /\ ThreadFrame

\* lines 124-127, one key of the loop: the access time is read and the
\* pair of keys collected when it is older than bigbang
ScanKey ==
    LET me == run.cl
    IN
    /\ me.pc = "125"
    /\ \E key \in me.pending :
          run' = [run EXCEPT !.cl =
                    IF ~Contains(cache, key)
                    THEN NoClear("KeyError")
                    ELSE Clearing("125", me.bigbang, me.pending \ {key},
                                  IF GetItem(kind, cache, key) < me.bigbang
                                  THEN me.outdated \cup {key} ELSE me.outdated,
                                  <<>>, "running")]
    /\ UNCHANGED <<cache, disk, synced>>
    /\ ThreadFrame

\* (a variant that collects the value key before its :atime key)
DeleteOrderValueFirst(key) == <<RSplitHead(key), key>>

\* lines 126-127: the :atime key is appended before its value key
DeleteOrder(key) == <<key, RSplitHead(key)>>

\* the scan is over: the delete loop of line 129 takes the next pair, or
\* clear returns when none is left
ScanEnd ==
    LET me == run.cl
    IN
    /\ me.pc \in {"125", "129"}
    /\ me.pending = {} /\ me.pair = <<>>
    /\ \/ /\ me.outdated = {}
          /\ run' = [run EXCEPT !.cl = NoClear("ok")]
       \/ \E key \in me.outdated :
             run' = [run EXCEPT !.cl =
                       Clearing("129", me.bigbang, {}, me.outdated \ {key},
                                DeleteOrder(key), "running")]
    /\ UNCHANGED <<cache, disk, synced>>
    /\ ThreadFrame

\* line 130: del self.__cache[key], KeyError when the key is absent
DeleteKey ==
    LET me == run.cl
    IN
    /\ me.pc = "129"
    /\ me.pair # <<>>
    /\ IF Contains(cache, Head(me.pair))
       THEN /\ cache' = DelItems(cache, {Head(me.pair)})
            /\ run' = [run EXCEPT !.cl.pair = Tail(me.pair)]
       ELSE /\ run' = [run EXCEPT !.cl = NoClear("KeyError")]
            /\ UNCHANGED cache
    /\ UNCHANGED <<disk, synced>>
    /\ ThreadFrame

\* threads that make wrapped calls on one open engine on a path, with the
\* builtin repr; no clear running
InitRace ==
    /\ kind = "shelve"
    /\ Init!2
    /\ reprfn = "repr"
    /\ Init!4 /\ Init!5 /\ Init!6
    /\ Init!7 /\ Init!8 /\ Init!9 /\ Init!10 /\ Init!11
    /\ prog = RaceCalls
    /\ run = [w |-> [t \in Threads |-> Idle("none")], cl |-> NoClear("none")]

NextRace ==
    \/ \E t \in Threads, c \in prog : Begin(t, c)
    \/ \E t \in Threads : HitCheck(t)
    \/ \E t \in Threads : ReadValue(t)
    \/ \E t \in Threads, raises \in BOOLEAN : Compute(t, raises)
    \/ \E t \in Threads : StoreValue(t)
    \/ \E t \in Threads : WriteAtime(t)
    \/ \E t \in Threads : SyncReturn(t)
    \/ Tick

SpecRace == InitRace /\ [][NextRace]_vars

\* the same threads, without livesync, with a thread that calls clear(maxage)
InitRaceClear == InitRace /\ livesync = FALSE

NextRaceClear ==
    \/ NextRace
    \/ \E maxage \in 1..MaxAge : ClearBegin(maxage)
    \/ ScanKey
    \/ ScanEnd
    \/ DeleteKey

SpecRaceClear == InitRaceClear /\ [][NextRaceClear]_vars

-----------------------------------------------------------------------------
(* Vocabulary of the properties *)

\* the step is a wrapped call whose wrapper ran (the backend did not refuse)
CallStep == last'.op = "call" /\ last'.outcome # "ClosedError"

\* ckey of the wrapped call of the step
StepKey == KeyOf[reprfn][last'.call]

\* a wrapped call invokes the original callable exactly when its key is absent
MissIffAbsent == CallStep => (last'.invoked <=> ~Contains(cache, StepKey))

\* two invocations that differ at most in the order of their keywords
SameButKwOrder(c0, c) ==
    c0.fn = c.fn /\ c0.args = c.args /\ KwDict(c0) = KwDict(c)

\* a clear() without an age has just run to its end
FullClearDone == last.op = "clear" /\ last.outcome = "ok" /\ last.maxage = 0

\* the keys of the cached values, and of their access times
ValueKeys(store) == {k \in DOMAIN store : ~EndsWith(k, ATIME)}
AtimeKeys(store) == {k \in DOMAIN store : EndsWith(k, ATIME)}

\* stats() has just returned <<num, oldest, newest>>
StatsDone == last.op = "stats" /\ last.outcome = "ok"

\* the access times the store holds
Atimes(k, store) == {GetItem(k, store, key) : key \in AtimeKeys(store)}

\* two invocations with the same arguments, as values
SameArguments(c0, c) == c0.args = c.args /\ KwDict(c0) = KwDict(c)

\* what the invocations of the program that address key k return
ReturnsOf(k) == {Apply(c) : c \in {c0 \in prog : KeyOf[reprfn][c0] = k}}

\* no operation of a thread is in progress
AllDone == run.cl.pc = "idle" /\ \A t \in Threads : run.w[t].pc = "idle"

-----------------------------------------------------------------------------
(* C1: hit/miss contract. The first wrapped call with a given (callable    *)
(* name, argument signature) invokes the original callable and stores its  *)
(* return value; every later wrapped call with the same signature, while   *)
(* the entry that call stored is still there, does not invoke the callable *)
(* and returns exactly the stored value.                                   *)
C1_HitMissContract ==
    [][ CallStep =>
          LET c == last'.call
              k == StepKey
              s == SigOf[reprfn][c]
          IN  /\ (s \notin seen.sigs) =>
                    /\ last'.invoked
                    /\ (last'.outcome = "ok") =>
                          /\ Contains(cache', k)
                          /\ last'.result = <<GetItem(kind, cache', k)>>
                          /\ last'.result = <<Apply(c)>>
              /\ (/\ s \in seen.sigs
                  /\ Contains(cache, k)
                  /\ k \in DOMAIN origin
                  /\ SigOf[reprfn][origin[k]] = s) =>
                    /\ ~last'.invoked
                    /\ last'.outcome = "ok"
                    /\ last'.result = <<GetItem(kind, cache, k)>>
      ]_vars

-----------------------------------------------------------------------------
(* C2: failure non-caching. When the original callable raises during a     *)
(* miss, the failure reaches the caller, nothing is written (the value key *)
(* and its :atime key stay absent, the backend is unchanged, no sync), and *)
(* a later wrapped call with the same arguments invokes the callable again.*)
C2_FailureNotCached ==
    [][ /\ (CallStep /\ last'.outcome = "raised") =>
              /\ last'.invoked
              /\ last'.result = <<>>
              /\ cache' = cache /\ disk' = disk /\ synced' = synced
              /\ ~Contains(cache', StepKey)
              /\ ~Contains(cache', AtimeKey(StepKey))
        /\ (CallStep /\ ~Contains(cache, StepKey)) => last'.invoked
      ]_vars

\* a wrapped call has just failed in the callable while other results are cached
C2_Witness ==
    /\ last.op = "call" /\ last.outcome = "raised"
    /\ cache # Empty

-----------------------------------------------------------------------------
(* C3: key differentiation. Two invocations share a cache key only if they *)
(* have the same callable name, the same sequence of positional-argument   *)
(* representations and the same set of keyword name/representation pairs:  *)
(* a call that found its value cached has the signature of the call that   *)
(* stored the value.                                                       *)
C3_KeyDifferentiation ==
    (last.op = "call" /\ last.outcome = "ok") =>
        \A k \in DOMAIN origin :
            k = KeyOf[reprfn][last.call] =>
                SigOf[reprfn][origin[k]] = SigOf[reprfn][last.call]

-----------------------------------------------------------------------------
(* C4: keyword order independence. A wrapped call that differs from the    *)
(* call that stored a cached value only in the order in which the keyword  *)
(* arguments were passed derives the same key and is a hit returning that  *)
(* value.                                                                  *)
C4_KwOrderIndependent ==
    [][ CallStep =>
          \A k \in DOMAIN origin :
              (Contains(cache, k) /\ SameButKwOrder(origin[k], last'.call)) =>
                  /\ StepKey = k
                  /\ ~last'.invoked
                  /\ last'.outcome = "ok"
                  /\ last'.result = <<GetItem(kind, cache, k)>>
      ]_vars

\* a hit on a value stored by a call that passed the keywords in another order
C4_Witness ==
    /\ last.op = "call" /\ last.outcome = "ok" /\ ~last.invoked
    /\ KeyOf[reprfn][last.call] \in DOMAIN origin
    /\ origin[KeyOf[reprfn][last.call]].kwargs # last.call.kwargs
    /\ SameButKwOrder(origin[KeyOf[reprfn][last.call]], last.call)

-----------------------------------------------------------------------------
(* C5: age-based eviction. clear(maxage) with maxage > 0 at time now       *)
(* deletes exactly the entries whose stored access time is older than the  *)
(* cutoff (atime < now - maxage), value key and :atime key together, and   *)
(* keeps every other entry as it was; afterwards a call for an evicted     *)
(* entry recomputes and a call for a retained entry hits.                  *)
C5_AgeBasedEviction ==
    [][ /\ (last'.op = "clear" /\ last'.outcome # "ClosedError" /\ last'.maxage > 0) =>
              /\ last'.outcome = "ok"
              /\ DOMAIN cache' \subseteq DOMAIN cache
              /\ \A c \in Calls :
                    LET k == KeyOf[reprfn][c]
                        a == AtimeKey(k)
                    IN  Contains(cache, k) =>
                          /\ Contains(cache, a)
                          /\ IF GetItem(kind, cache, a) < now - last'.maxage
                             THEN ~Contains(cache', k) /\ ~Contains(cache', a)
                             ELSE /\ Contains(cache', k) /\ Contains(cache', a)
                                  /\ cache'[k] = cache[k] /\ cache'[a] = cache[a]
        /\ MissIffAbsent
      ]_vars

\* a clear(maxage > 0) has just evicted some entry and retained another
C5_Witness ==
    /\ last.op = "clear" /\ last.outcome = "ok" /\ last.maxage > 0
    /\ last.removed # {}
    /\ cache # Empty

-----------------------------------------------------------------------------
(* C6: access-time tracking. Every wrapped call that returns normally, hit *)
(* or miss, leaves <key>:atime equal to the time of that call; no other    *)
(* step changes the access time of an entry that exists afterwards, so the *)
(* stored atime is the time of the most recent successful access.          *)
C6_AccessTime ==
    [][ /\ (CallStep /\ last'.outcome = "ok") => Contains(cache', AtimeKey(StepKey))
        /\ \A c \in Calls :
              LET a == AtimeKey(KeyOf[reprfn][c])
              IN  Contains(cache', a) =>
                    IF CallStep /\ last'.outcome = "ok" /\ StepKey = KeyOf[reprfn][c]
                    THEN GetItem(kind, cache', a) = now'
                    ELSE /\ Contains(cache, a)
                         /\ GetItem(kind, cache', a) = GetItem(kind, cache, a)
      ]_vars

\* a hit, later than time 0, has just set the access time of its entry
C6_Witness ==
    /\ last.op = "call" /\ last.outcome = "ok" /\ ~last.invoked
    /\ now > 0
    /\ GetItem(kind, cache, AtimeKey(KeyOf[reprfn][last.call])) = now

-----------------------------------------------------------------------------
(* C7: full clear. clear() without an age removes every key, value keys    *)
(* and :atime keys; stats() right afterwards reports count 0 and the next  *)
(* wrapped call is a miss.                                                 *)
C7_FullClear ==
    [][ /\ (last'.op = "clear" /\ last'.outcome # "ClosedError" /\ last'.maxage = 0) =>
              /\ last'.outcome = "ok"
              /\ DOMAIN cache' = {}
              /\ StatsOf(kind, cache', now')[1] = 0
        /\ (FullClearDone /\ last'.op = "stats") =>
              (last'.outcome = "ok" /\ last'.stats[1] = 0)
        /\ (FullClearDone /\ CallStep) => last'.invoked
      ]_vars

\* a clear() has just removed the keys of a cache that held results
C7_Witness == FullClearDone /\ last.removed # {}

-----------------------------------------------------------------------------
(* C8: cross-session persistence. Every result cached by an engine over a  *)
(* path-backed store, once that engine is closed, is found by a new engine *)
(* opened later on the same path: same value, a hit that does not invoke   *)
(* the callable. Without live-sync the path changes only at close().       *)
C8_CrossSession ==
    [][ /\ (last'.op = "open" /\ kind = "shelve") =>
              \A c \in Calls :
                  LET k == KeyOf[reprfn][c]
                  IN  Contains(cache, k) =>
                        /\ Contains(cache', k)
                        /\ GetItem(kind, cache', k) = GetItem(kind, cache, k)
        /\ (CallStep /\ Contains(cache, StepKey)) =>
              /\ ~last'.invoked
              /\ last'.result = <<GetItem(kind, cache, StepKey)>>
        /\ (kind = "shelve" /\ ~livesync /\ disk' # disk) =>
              last'.op \in {"close", "del"}
        /\ (kind = "shelve" /\ phase = "open" /\ last'.op \in {"close", "del"}) =>
              disk' = cache
      ]_vars

\* without live-sync, a new engine on the path has just hit a value that the
\* path held when the engine was opened
C8_Witness ==
    /\ kind = "shelve" /\ ~livesync /\ phase = "open"
    /\ last.op = "call" /\ last.outcome = "ok" /\ ~last.invoked
    /\ Contains(disk, KeyOf[reprfn][last.call])
    /\ disk[KeyOf[reprfn][last.call]] = cache[KeyOf[reprfn][last.call]]

-----------------------------------------------------------------------------
(* C9: OPEN/CLOSED state machine. Once close() has been called, every      *)
(* later wrapped call, clear and stats fails with a ClosedError, for every *)
(* kind of backend, and leaves the stored data unchanged.                  *)
C9_ClosedRejects ==
    [][ (phase = "closed" /\ last'.op \in {"call", "clear", "stats"}) =>
          /\ last'.outcome = "ClosedError"
          /\ cache' = cache
          /\ disk' = disk
      ]_vars

-----------------------------------------------------------------------------
(* C10: close() is idempotent. close() on an engine that is closed already,*)
(* called explicitly or by the finalizer, does not fail and does not       *)
(* change the stored data.                                                 *)
C10_CloseIdempotent ==
    [][ (phase = "closed" /\ last'.op \in {"close", "del"}) =>
          /\ last'.outcome = "ok"
          /\ cache' = cache
          /\ disk' = disk
      ]_vars

\* a closed engine that holds results has just been closed again
C10_Witness ==
    /\ last.op \in {"close", "del"} /\ last.was = "closed"
    /\ cache # Empty

-----------------------------------------------------------------------------
(* C11: live-sync on. With livesync every operation that changes the cache *)
(* contents, a wrapped call as well as clear() and clear(max_age), has     *)
(* called sync() on the backend before it returns, so that the path of a   *)
(* Shelf holds what the cache holds after the operation.                   *)
C11_LiveSync ==
    [][ ( /\ livesync
          /\ last'.op \in {"call", "clear"}
          /\ last'.outcome = "ok"
          /\ cache' # cache ) =>
          /\ synced'
          /\ (kind = "shelve" => disk' = cache')
      ]_vars

-----------------------------------------------------------------------------
(* C12: live-sync off. Without livesync no sequence of wrapped calls, hits *)
(* or misses, of clear and of stats operations calls sync() on the         *)
(* backend, and the path of a Shelf is written by close() only.            *)
C12_NoLiveSync ==
    [][ ~livesync =>
          /\ ~synced'
          /\ last'.op \in {"call", "clear", "stats"} => disk' = disk
      ]_vars

\* without live-sync a hit has just written its access time, after a miss
\* and a clear(max_age) before it, and sync() was never called
C12_Witness ==
    /\ ~livesync /\ ~synced /\ phase = "open"
    /\ last.op = "call" /\ last.outcome = "ok" /\ ~last.invoked
    /\ now > 0 /\ cache # Empty

-----------------------------------------------------------------------------
(* C13: stats() on a cache that is not empty returns the number of cached  *)
(* values as count, the least stored access time as oldest and the         *)
(* greatest stored access time as newest, so that oldest <= newest.        *)
C13_StatsNonEmpty ==
    (StatsDone /\ cache # Empty) =>
        /\ last.stats[1] = Cardinality(ValueKeys(cache))
        /\ last.stats[2] \in Atimes(kind, cache)
        /\ \A t \in Atimes(kind, cache) : last.stats[2] <= t
        /\ last.stats[3] \in Atimes(kind, cache)
        /\ \A t \in Atimes(kind, cache) : t <= last.stats[3]
        /\ last.stats[2] <= last.stats[3]

\* stats() has just counted two entries that were accessed at different
\* times, both before the time of the stats() call
C13_Witness ==
    /\ StatsDone
    /\ last.stats[1] = 2
    /\ last.stats[2] < last.stats[3]
    /\ last.stats[3] < now

-----------------------------------------------------------------------------
(* C14: stats() on an empty cache returns count 0, the current time as     *)
(* oldest and 0 as newest; whenever stats() returns oldest > newest, count *)
(* is 0.                                                                   *)
C14_StatsEmpty ==
    StatsDone =>
        /\ cache = Empty => last.stats = <<0, now, 0>>
        /\ last.stats[2] > last.stats[3] => last.stats[1] = 0

\* stats() has just run on an empty cache at a time after 0
C14_Witness ==
    /\ StatsDone
    /\ cache = Empty
    /\ now > 0
    /\ last.stats[2] > last.stats[3]

-----------------------------------------------------------------------------
(* C15: representation collision. When the arguments of a wrapped call     *)
(* have, one by one, the same strings under the configured repr as the     *)
(* arguments of an earlier call of the same callable whose result is       *)
(* cached, the call addresses that entry: it is a hit, does not invoke the *)
(* callable and returns the result stored by the earlier call.             *)
C15_ReprCollision ==
    [][ CallStep =>
          \A k \in DOMAIN origin :
             ( /\ Contains(cache, k)
               /\ SigOf[reprfn][origin[k]] = SigOf[reprfn][last'.call] ) =>
                 /\ StepKey = k
                 /\ ~last'.invoked
                 /\ last'.result = <<Apply(origin[k])>>
                 /\ cache'[k] = cache[k]
      ]_vars

\* under myrepr a call has just hit the entry that a call with another
\* argument value stored, and returned a result that its own arguments would not give
C15_Witness ==
    /\ reprfn = "myrepr"
    /\ last.op = "call" /\ last.outcome = "ok" /\ ~last.invoked
    /\ KeyOf[reprfn][last.call] \in DOMAIN origin
    /\ origin[KeyOf[reprfn][last.call]].args # last.call.args
    /\ last.result # <<Apply(last.call)>>

-----------------------------------------------------------------------------
(* C16: the name of the callable is part of the key. A wrapped call never  *)
(* addresses an entry that a callable with another name stored for the     *)
(* same arguments; when every cached entry was stored by other callables   *)
(* for the arguments of the call, the call is a miss that invokes its own  *)
(* callable.                                                               *)
C16_NamePartOfKey ==
    [][ CallStep =>
          LET c == last'.call
              others == {k \in DOMAIN origin :
                            /\ Contains(cache, k)
                            /\ origin[k].fn # c.fn
                            /\ SameArguments(origin[k], c)}
          IN  /\ StepKey \notin others
              /\ (others # {} /\ ValueKeys(cache) = others) =>
                    /\ last'.invoked
                    /\ last'.outcome = "ok" => last'.result = <<Apply(c)>>
      ]_vars

\* f2 has just been invoked with the arguments for which a result of f1
\* is cached, and both results are cached now
C16_Witness ==
    /\ last.op = "call" /\ last.outcome = "ok" /\ last.invoked
    /\ last.call.fn = F2
    /\ \E k \in DOMAIN origin :
          /\ Contains(cache, k)
          /\ origin[k].fn = F1
          /\ SameArguments(origin[k], last.call)
          /\ k # KeyOf[reprfn][last.call]
    /\ Contains(cache, KeyOf[reprfn][last.call])

-----------------------------------------------------------------------------
(* C17: racing wrapped calls. Under every interleaving of the steps of the *)
(* wrapped calls of two threads on one open engine, with no clear running, *)
(* the value stored under a key is what one invocation that addresses the  *)
(* key returned, every call is about to return such a value once it has    *)
(* read or stored one, and no call fails with a missing key; the callable  *)
(* may be invoked by both threads for the same key.                        *)
C17_RaceNoCorruption ==
    /\ \A k \in ValueKeys(cache) : GetItem(kind, cache, k) \in ReturnsOf(k)
    /\ \A t \in Threads :
          /\ run.w[t].pc \in {"101", "102"} =>
                run.w[t].result[1] \in ReturnsOf(KeyOf[reprfn][run.w[t].call])
          /\ run.w[t].outcome # "KeyError"

\* both threads have invoked the callable for the same key: one has stored
\* its result and is about to return it, the other is about to store another
C17_Witness ==
    \E t, u \in Threads :
       /\ run.w[t].pc = "102" /\ run.w[t].invoked
       /\ run.w[u].pc = "100" /\ run.w[u].invoked
       /\ KeyOf[reprfn][run.w[t].call] = KeyOf[reprfn][run.w[u].call]
       /\ run.w[t].result # run.w[u].result
       /\ Contains(cache, KeyOf[reprfn][run.w[t].call])

-----------------------------------------------------------------------------
(* C18: pairing of the keys. In every state that operations run one after  *)
(* the other reach from an empty backend, a value key is present exactly   *)
(* when its :atime key is present; so clear(max_age) never deletes a key   *)
(* that is absent.                                                         *)
C18_Pairing ==
    /\ \A k \in ValueKeys(cache) : AtimeKey(k) \in DOMAIN cache
    /\ \A a \in AtimeKeys(cache) : RSplitHead(a) \in ValueKeys(cache)
    /\ last.op = "clear" => last.outcome # "KeyError"

\* clear(max_age) has just deleted both keys of an entry and kept both
\* keys of another
C18_Witness ==
    /\ last.op = "clear" /\ last.outcome = "ok" /\ last.maxage > 0
    /\ \E k \in last.removed : AtimeKey(k) \in last.removed
    /\ \E k \in ValueKeys(cache) : AtimeKey(k) \in DOMAIN cache

-----------------------------------------------------------------------------
(* C19: clear(max_age) among concurrent wrapped calls. When the scan and   *)
(* the deletes of clear(max_age) are interleaved with the steps of wrapped *)
(* calls of other threads, no operation fails with a missing key, and once *)
(* all operations have completed every value key has its :atime key and    *)
(* every :atime key has its value key.                                     *)
C19_ClearRace ==
    /\ run.cl.outcome # "KeyError"
    /\ \A t \in Threads : run.w[t].outcome # "KeyError"
    /\ AllDone =>
          /\ \A k \in ValueKeys(cache) : AtimeKey(k) \in DOMAIN cache
          /\ \A a \in AtimeKeys(cache) : RSplitHead(a) \in ValueKeys(cache)

\* C19 as it holds: when the scan and the deletes of clear(max_age) are
\* interleaved with the steps of wrapped calls of other threads, then once
\* all operations have completed every value key has its :atime key (a
\* wrapped call or a later clear(max_age) may have failed with a missing
\* key, and an :atime key may be left without its value key).
C19_NoOrphanValue ==
    AllDone => \A k \in ValueKeys(cache) : AtimeKey(k) \in DOMAIN cache

\* all operations have completed, the clear without error, a value is
\* cached with its :atime key, and an :atime key is left without its value
C19_Witness ==
    /\ AllDone
    /\ run.cl.outcome = "ok"
    /\ \E k \in ValueKeys(cache) : AtimeKey(k) \in DOMAIN cache
    /\ \E a \in AtimeKeys(cache) : RSplitHead(a) \notin DOMAIN cache

-----------------------------------------------------------------------------
(* C20: frame. A wrapped call with key K adds or changes at most the keys  *)
(* K and K:atime, and a hit leaves the value under K as it was; every      *)
(* other key keeps its presence and its value. clear(max_age) leaves every *)
(* key it keeps with the value it had and adds none. stats() changes       *)
(* nothing.                                                                *)
C20_Frame ==
    [][ /\ CallStep =>
             /\ \A k \in (DOMAIN cache \cup DOMAIN cache')
                              \ {StepKey, AtimeKey(StepKey)} :
                   /\ k \in DOMAIN cache /\ k \in DOMAIN cache'
                   /\ cache'[k] = cache[k]
             /\ Contains(cache, StepKey) =>
                   /\ Contains(cache', StepKey)
                   /\ cache'[StepKey] = cache[StepKey]
        /\ (last'.op = "clear" /\ last'.maxage > 0) =>
             \A k \in DOMAIN cache' :
                 k \in DOMAIN cache /\ cache'[k] = cache[k]
        /\ last'.op = "stats" =>
             /\ cache' = cache
             /\ disk' = disk
             /\ phase' = phase
      ]_vars

\* a hit has just written its access time while another entry is cached,
\* after a clear(max_age) and a stats() on the same engine
C20_Witness ==
    /\ last.op = "call" /\ last.outcome = "ok" /\ ~last.invoked
    /\ now > 0
    /\ GetItem(kind, cache, AtimeKey(KeyOf[reprfn][last.call])) = now
    /\ \E k \in ValueKeys(cache) : k # KeyOf[reprfn][last.call]

-----------------------------------------------------------------------------
(* C21: clear with a non-positive age. clear(max_age) with max_age = 0 or  *)
(* a negative max_age removes every key, also those of entries accessed at *)
(* the very time of the call; only with max_age > 0 the pass is selective  *)
(* and keeps, unchanged, the entries accessed at or after now - max_age.   *)
C21_NonPositiveAge ==
    [][ (last'.op = "clear" /\ last'.outcome # "ClosedError") =>
          /\ last'.maxage <= 0 =>
                /\ last'.outcome = "ok"
                /\ cache' = Empty
                /\ last'.removed = DOMAIN cache
          /\ last'.maxage > 0 =>
                \A a \in AtimeKeys(cache) :
                    GetItem(kind, cache, a) >= now - last'.maxage =>
                        /\ a \in DOMAIN cache' /\ cache'[a] = cache[a]
                        /\ RSplitHead(a) \in DOMAIN cache'
                        /\ cache'[RSplitHead(a)] = cache[RSplitHead(a)]
      ]_vars

\* a clear with a negative age has just removed entries at time 0, the
\* time at which they were stored and accessed
C21_Witness ==
    /\ last.op = "clear" /\ last.outcome = "ok"
    /\ last.maxage < 0
    /\ now = 0
    /\ last.removed # {}
    /\ cache = Empty

====
